---- MODULE Spec2Model ----
(***************************************************************************)
(* Funding-and-token-creation workflow of pumpfun-dev.                     *)
(*                                                                         *)
(* Modelled handlers:                                                      *)
(*   create-sol POST      src/src/app/api/create-sol/route.ts              *)
(*   tokens POST          src/src/app/api/tokens/route.ts                  *)
(*   generate-wallet POST src/src/app/api/generate-wallet/route.ts         *)
(*   authenticated POST   src/unnamed/part_001                             *)
(*   handleSubmitSOL      src/src/components/CreateAgentForm.tsx           *)
(*                                                                         *)
(* Every await of an external call (RPC, SDK, document store, fetch) is a  *)
(* step whose outcome (a value or a thrown Error) is chosen with \E.       *)
(* Lamport amounts are exact integers (1 SOL = 10^9 lamports).             *)
(***************************************************************************)
EXTENDS Integers, Sequences, FiniteSets, TLC

\* ------------------------------------------------------------------ bounds
\* Number of top-level requests (form submissions or HTTP requests) in a run.
MaxRuns == 2

\* --------------------------------------------------------------- constants
\* create-sol/route.ts
MAX_RETRIES == 3
MINIMUM_BALANCE_REQUIRED == 10000000
WAIT_MAX_ATTEMPTS == 10

\* A process.env entry that is not set reads as undefined.
Undefined == "<undefined>"

\* Error messages thrown by external calls (SDK, RPC, fetch, document store).
ExternalErrors == {"E1", "E2"}

\* `error instanceof Error ? error.message : "Failed to create token"`: every
\* value thrown in the handler is an Error, identified here by its message.
CSErrorMessage(e) == IF e \in STRING THEN e ELSE "Failed to create token"

NoResponse == [status |-> 0, success |-> FALSE, error |-> "", tokenUrl |-> ""]

\* ------------------------------------------------------------------- state
VARIABLES
    env,      \* process.env, fixed for the lifetime of the deployment
    runs,     \* number of top-level requests started so far
    active,   \* the top-level request in progress: "none", "createSol", ...
    cs,       \* the create-sol handler's request in progress
    tk,       \* the tokens handler's last request and response
    gw,       \* the generate-wallet handler's last response
    fw,       \* the form's handleSubmitSOL in progress
    ar,       \* the authenticated route's request in progress
    tokens,   \* document store: collection 'tokens' of tokenDb
    keys,     \* document store: collection 'keys' of tokenDb
    minted,   \* on-chain: the mint keys whose createAndBuy has succeeded
    issued,   \* <<mint key, tokenUrl>> of every success response of create-sol
    fin,      \* the post-mint finalization (price probe, record update) in progress
    bh,       \* the call of getBlockhashWithRetry in progress (walletInstance.signTransaction)
    gwc       \* generate-wallet requests running concurrently, and the entropy they draw on

vars == <<env, runs, active, cs, tk, gw, fw, ar, tokens, keys, minted, issued, fin, bh, gwc>>

\* ----------------------------------------------------------------- helpers
\* Keypairs are identified by small integers: Keypair.generate() in run r
\* yields the spend keypair 2r-1 and the mint keypair 2r; a keypair's secret
\* key bytes are SecretKey(k) and toBase58() of its public key is ToBase58(k).
KeyIds == 1..(2 * MaxRuns)
SpendKey(r) == 2 * r - 1
MintKey(r) == 2 * r
SecretKey(k) == "sk" \o ToString(k)
ToBase58(k) == "pk" \o ToString(k)

\* `https://pump.fun/${mint.publicKey.toBase58()}`
TokenUrl(mintKey) == "https://pump.fun/" \o ToBase58(mintKey)

\* Outcome of one awaited SDK call: a result object or a thrown Error.
SdkOutcomes ==
    {[kind |-> "success", error |-> ""], [kind |-> "failure", error |-> ""]}
    \cup {[kind |-> "throw", error |-> e] : e \in ExternalErrors}

\* Outcome of an awaited call that either returns or throws.
CallOutcomes ==
    {[kind |-> "ok", error |-> ""]} \cup {[kind |-> "throw", error |-> e] : e \in ExternalErrors}

\* ------------------------------------------------------ create-sol handler
CSIdle ==
    [pc |-> "idle", caller |-> "none", body |-> "none", walletData |-> "none",
     mint |-> 0, uploaded |-> FALSE, retryCount |-> 0, connection |-> FALSE,
     poll |-> 0, observed |-> 0, i |-> 0, createResults |-> "undefined", j |-> 0,
     buyResults |-> "undefined",
     \* what the SDK and the timer have seen of this request
     createCalls |-> 0, createThrows |-> 0, createThrown |-> "", createDelays |-> 0,
     buyCalls |-> 0, buyThrows |-> 0, buyDelays |-> 0,
     response |-> NoResponse]

\* A request arriving at create-sol: `body` is "form" (multipart form data) or
\* "json"; walletData is "none" (field absent), "malformed" (not JSON),
\* "badkey" (JSON whose keypair bytes are no secret key) or "valid".
CSRequest(caller, body, walletData, mintKey) ==
    [CSIdle EXCEPT !.pc = "formData", !.caller = caller, !.body = body,
                   !.walletData = walletData, !.mint = mintKey]

\* The walletData field of a request whose walletData is "valid", as
\* createToken builds it and as the handler parses it: the secret key bytes
\* of the spend keypair (the key generated just before the mint key) and of
\* the mint keypair.
CSWalletData(c) ==
    [keypair |-> SecretKey(c.mint - 1), mint |-> SecretKey(c.mint),
     publicKey |-> ToBase58(c.mint - 1)]

\* Variant: the `{ status: 500 }` argument is missing, so the failure is sent
\* with the default status 200.
CSCatchDefaultStatus(c, e) ==
    [c EXCEPT !.pc = "done",
              !.response = [status |-> 200, success |-> FALSE,
                            error |-> CSErrorMessage(e), tokenUrl |-> ""]]

\* catch (error) { return NextResponse.json({success:false, error, details}, {status:500}) }
CSCatch(c, e) ==
    [c EXCEPT !.pc = "done",
              !.response = [status |-> 500, success |-> FALSE,
                            error |-> CSErrorMessage(e), tokenUrl |-> ""]]

\* Variant: the catch compensates a failure by dropping the request's mint.
CSThrowRollingBack(c, e) ==
    /\ cs' = CSCatch(c, e)
    /\ minted' = minted \ {c.mint}
    /\ UNCHANGED issued

\* A throw inside the handler's try block: the catch answers, nothing else changes.
CSThrow(c, e) ==
    /\ cs' = CSCatch(c, e)
    /\ UNCHANGED <<minted, issued>>

CSGoto(c) ==
    /\ cs' = c
    /\ UNCHANGED <<minted, issued>>

\* const data = await req.formData(): rejects when the body is not form data.
CSFormData ==
    /\ cs.pc = "formData"
    /\ IF cs.body = "form"
       THEN CSGoto([cs EXCEPT !.pc = "upload"])
       ELSE CSThrow(cs, "Failed to parse body as FormData.")
    /\ UNCHANGED <<env, bh, gwc, fin, runs, active, tk, gw, fw, ar, tokens, keys>>

\* while (!connection && retryCount < MAX_RETRIES) { try { new Connection } catch { retryCount++; delay } }
\* One pass of the loop (entered with connection = null). retryCount is not
\* read once the loop is left.
\* Variant: the catch does not count the failed try.
CSConnectLoopNoCount(c, ok) ==
    IF ok THEN [c EXCEPT !.connection = TRUE, !.retryCount = 0, !.pc = "keypairs"]
    ELSE [c EXCEPT !.pc = "connectDelay"]

CSConnectLoop(c, ok) ==
    IF ok THEN [c EXCEPT !.connection = TRUE, !.retryCount = 0, !.pc = "keypairs"]
    ELSE [c EXCEPT !.retryCount = @ + 1, !.pc = "connectDelay"]

\* const uploadResult = await upload(data); then the walletData check and parse.
CSUpload ==
    /\ cs.pc = "upload"
    /\ \E o \in CallOutcomes :
         IF o.kind = "throw" THEN CSThrow(cs, o.error)
         ELSE LET c == [cs EXCEPT !.uploaded = TRUE] IN
              IF c.walletData = "none" THEN CSThrow(c, "No wallet data provided")
              ELSE IF c.walletData = "malformed"
                   THEN CSThrow(c, "Unexpected token in JSON")
                   ELSE CSGoto([c EXCEPT !.pc = "connect"])
    /\ UNCHANGED <<env, bh, gwc, fin, runs, active, tk, gw, fw, ar, tokens, keys>>

CSConnect ==
    /\ cs.pc = "connect"
    /\ \E ok \in BOOLEAN : CSGoto(CSConnectLoop(cs, ok))
    /\ UNCHANGED <<env, bh, gwc, fin, runs, active, tk, gw, fw, ar, tokens, keys>>

\* await delay in the catch, then the loop condition; after the loop
\* `if (!connection) throw new Error("Failed to establish connection")`.
CSConnectDelay ==
    /\ cs.pc = "connectDelay"
    /\ IF cs.retryCount < MAX_RETRIES
       THEN CSGoto([cs EXCEPT !.pc = "connect"])
       ELSE CSThrow(cs, "Failed to establish connection")
    /\ UNCHANGED <<env, bh, gwc, fin, runs, active, tk, gw, fw, ar, tokens, keys>>

\* Keypair.fromSecretKey(...) for keypair and mint (throws on bad bytes).
CSKeypairs ==
    /\ cs.pc = "keypairs"
    /\ IF cs.walletData = "badkey"
       THEN CSThrow(cs, "bad secret key size")
       ELSE CSGoto([cs EXCEPT !.pc = "waitForBalance"])
    /\ UNCHANGED <<env, bh, gwc, fin, runs, active, tk, gw, fw, ar, tokens, keys>>

\* Balances a getBalance poll may observe, around the threshold.
PolledBalances == {0, MINIMUM_BALANCE_REQUIRED - 1, MINIMUM_BALANCE_REQUIRED}

\* Variant: any non-zero balance is taken as sufficient.
BalanceSufficientNonZero(balance, expectedBalance) == balance > 0

\* if (balance >= expectedBalance) return true;
BalanceSufficient(balance, expectedBalance) == balance >= expectedBalance

\* One iteration of waitForBalance's loop, and the caller's check of its result.
\* observed is the balance the poll that returned true saw.
\* poll is the function's local i, gone when the function returns.
CSWaitForBalance ==
    /\ cs.pc = "waitForBalance"
    /\ \/ \E e \in ExternalErrors : CSThrow(cs, e)
       \/ \E balance \in PolledBalances :
            IF BalanceSufficient(balance, MINIMUM_BALANCE_REQUIRED)
            THEN CSGoto([cs EXCEPT !.pc = "getBalance", !.poll = 0, !.observed = balance])
            ELSE IF cs.poll + 1 < WAIT_MAX_ATTEMPTS
                 THEN CSGoto([cs EXCEPT !.poll = @ + 1])
                 ELSE CSThrow([cs EXCEPT !.poll = @ + 1],
                              "Insufficient balance after waiting. Required: 0.01 SOL")
    /\ UNCHANGED <<env, bh, gwc, fin, runs, active, tk, gw, fw, ar, tokens, keys>>

\* const balance = await connection.getBalance(keypair.publicKey)
CSGetBalance ==
    /\ cs.pc = "getBalance"
    /\ \E o \in CallOutcomes :
         IF o.kind = "throw" THEN CSThrow(cs, o.error)
         ELSE CSGoto([cs EXCEPT !.pc = "getFile"])
    /\ UNCHANGED <<env, bh, gwc, fin, runs, active, tk, gw, fw, ar, tokens, keys>>

\* const ipfsData = await getFile(...); the create loop starts with i = 0.
CSGetFile ==
    /\ cs.pc = "getFile"
    /\ \E o \in CallOutcomes :
         IF o.kind = "throw" THEN CSThrow(cs, o.error)
         ELSE CSGoto([cs EXCEPT !.pc = "create", !.i = 0])
    /\ UNCHANGED <<env, bh, gwc, fin, runs, active, tk, gw, fw, ar, tokens, keys>>

\* for (let i = 0; i < MAX_RETRIES; i++)
LoopContinues(i) == i < MAX_RETRIES

\* ------------------------------- getBlockhashWithRetry (walletInstance.sign*)
\* The margin added to a fetched lastValidBlockHeight (the literal 150).
VALIDITY_MARGIN == 150

\* Block heights connection.getLatestBlockhash may report.
BlockHeights == {1000, 2000}

\* lastValidBlockHeight: lastValidBlockHeight + 150
BHValidity(height) == height + VALIDITY_MARGIN

BHIdle ==
    [pc |-> "idle", i |-> 0, calls |-> 0, delays |-> 0, fetched |-> 0,
     lastValidBlockHeight |-> 0, error |-> "", signed |-> FALSE]

\* What an SDK call can end with: when walletInstance.signTransaction rejected,
\* no transaction was signed, so the call throws or returns a failure.
SdkOutcomesAfter(b) ==
    IF b.pc = "thrown" THEN {o \in SdkOutcomes : o.kind # "success"} ELSE SdkOutcomes

\* The SDK call in progress has no call of walletInstance.signTransaction pending.
BHSettled == bh.pc \in {"idle", "returned", "thrown"}

\* During sdk.createAndBuy or sdk.buy the SDK calls walletInstance.signTransaction,
\* which starts getBlockhashWithRetry(connection) with retries = MAX_RETRIES.
BHCall ==
    /\ cs.pc \in {"create", "buy"}
    /\ bh.pc = "idle"
    /\ bh' = [BHIdle EXCEPT !.pc = "fetch"]
    /\ UNCHANGED <<env, gwc, fin, runs, active, cs, tk, gw, fw, ar, tokens, keys, minted, issued>>

\* Variant: the error is swallowed on the last attempt as well.
BHIsLastAttemptNever(i) == FALSE

\* if (i === retries - 1) throw error;
BHIsLastAttempt(i) == i = MAX_RETRIES - 1

\* One pass of the loop's try: await connection.getLatestBlockhash("finalized");
\* on success the function returns and signTransaction partially signs.
BHAttempt ==
    /\ bh.pc = "fetch"
    /\ \/ \E h \in BlockHeights :
            bh' = [bh EXCEPT !.calls = @ + 1, !.fetched = h,
                             !.lastValidBlockHeight = BHValidity(h),
                             !.signed = TRUE, !.pc = "returned"]
       \/ \E e \in ExternalErrors :
            bh' = IF BHIsLastAttempt(bh.i)
                  THEN [bh EXCEPT !.calls = @ + 1, !.error = e, !.pc = "thrown"]
                  ELSE [bh EXCEPT !.calls = @ + 1, !.error = e, !.pc = "delay"]
    /\ UNCHANGED <<env, gwc, fin, runs, active, cs, tk, gw, fw, ar, tokens, keys, minted, issued>>

\* catch: await new Promise(resolve => setTimeout(resolve, RETRY_DELAY)); i++
\* and the loop condition; after the loop `throw new Error("Failed to get
\* blockhash after retries")`.
BHDelay ==
    /\ bh.pc = "delay"
    /\ bh' = IF bh.i + 1 < MAX_RETRIES
             THEN [bh EXCEPT !.delays = @ + 1, !.i = @ + 1, !.pc = "fetch"]
             ELSE [bh EXCEPT !.delays = @ + 1, !.i = @ + 1, !.pc = "thrown",
                             !.error = "Failed to get blockhash after retries"]
    /\ UNCHANGED <<env, gwc, fin, runs, active, cs, tk, gw, fw, ar, tokens, keys, minted, issued>>

\* Variant: the last-attempt test is off by one, so the third error is not rethrown.
IsLastAttemptOffByOne(i) == i = MAX_RETRIES

\* if (i === MAX_RETRIES - 1) throw error;
IsLastAttempt(i) == i = MAX_RETRIES - 1

\* Variant: the `break` on success is missing.
CSCreateReturnedNoBreak(c, success) ==
    [c EXCEPT !.createResults = IF success THEN "success" ELSE "failure",
              !.i = @ + 1,
              !.pc = IF c.i + 1 < MAX_RETRIES THEN "create" ELSE "afterCreate"]

\* The try block of the create loop once sdk.createAndBuy has returned:
\* `createResults = ...; if (createResults.success) break;` and, without a
\* break, the loop's i++ and its condition.
CSCreateReturned(c, success) ==
    IF success
    THEN [c EXCEPT !.createResults = "success", !.pc = "afterCreate"]
    ELSE [c EXCEPT !.createResults = "failure", !.i = @ + 1,
                   !.pc = IF LoopContinues(c.i + 1) THEN "create" ELSE "afterCreate"]

\* One attempt: await sdk.createAndBuy(keypair, mint, tokenMetadata, ...).
\* A successful call has minted the token on-chain.
CSCreateAttempt ==
    /\ cs.pc = "create"
    /\ BHSettled
    /\ bh' = BHIdle
    /\ \E o \in SdkOutcomesAfter(bh) :
         LET c == [cs EXCEPT !.createCalls = @ + 1,
                             !.createThrows = IF o.kind = "throw" THEN @ + 1 ELSE @,
                             !.createThrown = o.error] IN
         CASE o.kind = "throw" ->
                IF IsLastAttempt(c.i) THEN CSThrow(c, o.error)
                ELSE CSGoto([c EXCEPT !.pc = "createDelay"])
           [] o.kind = "success" ->
                /\ cs' = CSCreateReturned(c, TRUE)
                /\ minted' = minted \cup {c.mint}
                /\ UNCHANGED issued
           [] o.kind = "failure" -> CSGoto(CSCreateReturned(c, FALSE))
    /\ UNCHANGED <<env, gwc, fin, runs, active, tk, gw, fw, ar, tokens, keys>>

\* catch: await new Promise(resolve => setTimeout(resolve, RETRY_DELAY)); i++.
CSCreateDelay ==
    /\ cs.pc = "createDelay"
    /\ CSGoto([cs EXCEPT !.createDelays = @ + 1, !.i = @ + 1,
                         !.pc = IF LoopContinues(cs.i + 1) THEN "create" ELSE "afterCreate"])
    /\ UNCHANGED <<env, bh, gwc, fin, runs, active, tk, gw, fw, ar, tokens, keys>>

\* if (!createResults?.success) throw ...; tokenUrl; the buy-back key check.
\* Variant: the buy-back key is looked at before the result of the mint.
CSAfterCreateKeyFirst ==
    /\ cs.pc = "afterCreate"
    /\ IF env.NEXT_PUBLIC_BUY_BACK_PRIVATE_KEY = Undefined
       THEN CSThrow(cs, "Buyer private key not found")
       ELSE IF cs.createResults # "success"
            THEN CSThrow(cs, "Token creation failed after all retries")
            ELSE CSGoto([cs EXCEPT !.pc = "buy", !.j = 0])
    /\ UNCHANGED <<env, bh, gwc, fin, runs, active, tk, gw, fw, ar, tokens, keys>>

\* Variant: the buy-back is started whatever createAndBuy returned.
CSAfterCreateBuyRegardless ==
    /\ cs.pc = "afterCreate"
    /\ IF env.NEXT_PUBLIC_BUY_BACK_PRIVATE_KEY = Undefined
       THEN CSThrow(cs, "Buyer private key not found")
       ELSE CSGoto([cs EXCEPT !.pc = "buy", !.j = 0])
    /\ UNCHANGED <<env, bh, gwc, fin, runs, active, tk, gw, fw, ar, tokens, keys>>

CSAfterCreate ==
    /\ cs.pc = "afterCreate"
    /\ IF cs.createResults # "success"
       THEN CSThrow(cs, "Token creation failed after all retries")
       ELSE IF env.NEXT_PUBLIC_BUY_BACK_PRIVATE_KEY = Undefined
            THEN CSThrow(cs, "Buyer private key not found")
            ELSE CSGoto([cs EXCEPT !.pc = "buy", !.j = 0])
    /\ UNCHANGED <<env, bh, gwc, fin, runs, active, tk, gw, fw, ar, tokens, keys>>

\* The try block of the buy loop once sdk.buy has returned.
CSBuyReturned(c, success) ==
    IF success
    THEN [c EXCEPT !.buyResults = "success", !.pc = "afterBuy"]
    ELSE [c EXCEPT !.buyResults = "failure", !.j = @ + 1,
                   !.pc = IF LoopContinues(c.j + 1) THEN "buy" ELSE "afterBuy"]

\* One attempt: await sdk.buy(buyerKeypair, mint.publicKey, ...).
CSBuyAttempt ==
    /\ cs.pc = "buy"
    /\ BHSettled
    /\ bh' = BHIdle
    /\ \E o \in SdkOutcomesAfter(bh) :
         LET c == [cs EXCEPT !.buyCalls = @ + 1,
                             !.buyThrows = IF o.kind = "throw" THEN @ + 1 ELSE @] IN
         CASE o.kind = "throw" ->
                IF IsLastAttempt(c.j) THEN CSThrow(c, o.error)
                ELSE CSGoto([c EXCEPT !.pc = "buyDelay"])
           [] o.kind = "success" -> CSGoto(CSBuyReturned(c, TRUE))
           [] o.kind = "failure" -> CSGoto(CSBuyReturned(c, FALSE))
    /\ UNCHANGED <<env, gwc, fin, runs, active, tk, gw, fw, ar, tokens, keys>>

CSBuyDelay ==
    /\ cs.pc = "buyDelay"
    /\ CSGoto([cs EXCEPT !.buyDelays = @ + 1, !.j = @ + 1,
                         !.pc = IF LoopContinues(cs.j + 1) THEN "buy" ELSE "afterBuy"])
    /\ UNCHANGED <<env, bh, gwc, fin, runs, active, tk, gw, fw, ar, tokens, keys>>

\* return NextResponse.json({ success: true, tokenUrl }): the response, which
\* its reader now holds.
CSReturnSuccess(c) ==
    /\ cs' = [c EXCEPT !.pc = "done",
                       !.response = [status |-> 200, success |-> TRUE, error |-> "",
                                     tokenUrl |-> TokenUrl(c.mint)]]
    /\ issued' = issued \cup {<<c.mint, TokenUrl(c.mint)>>}
    /\ UNCHANGED minted

\* Variant: the result of the buy-back is not looked at.
CSBuyFailedIgnored(c) == FALSE

\* if (!buyResults?.success)
CSBuyFailed(c) == c.buyResults # "success"

\* if (!buyResults?.success) throw ...; await printSPLBalance(...) twice;
\* return NextResponse.json({ success: true, tokenUrl }).
CSAfterBuy ==
    /\ cs.pc = "afterBuy"
    /\ IF CSBuyFailed(cs)
       THEN CSThrow(cs, "Additional buy transaction failed after all retries")
       ELSE \E o \in CallOutcomes :
              IF o.kind = "throw" THEN CSThrow(cs, o.error)
              ELSE CSReturnSuccess(cs)
    /\ UNCHANGED <<env, bh, gwc, fin, runs, active, tk, gw, fw, ar, tokens, keys>>


\* ---------------------------------------------------------- tokens handler
\* A JSON body of POST tokens: the fields the handler and its callers name.
TokenBody(tokenName, tokenSymbol, tokenDescription, imageUrl, image, fundingWallet, fundingSignature, solAmount, targetWallet, wallets) ==
    [tokenName |-> tokenName, tokenSymbol |-> tokenSymbol,
     tokenDescription |-> tokenDescription, imageUrl |-> imageUrl, image |-> image,
     twitterLink |-> "", websiteLink |-> "", telegramLink |-> "",
     fundingWallet |-> fundingWallet, fundingSignature |-> fundingSignature,
     solAmount |-> solAmount, targetWallet |-> targetWallet, wallets |-> wallets]

\* `!x` of a JSON string field: absent (undefined) or the empty string.
Falsy(x) == x = Undefined \/ x = ""

TKResponse(status, success, error, tokenId) ==
    [status |-> status, success |-> success, error |-> error, tokenId |-> tokenId]

\* A body with every field absent.
EmptyBody ==
    [TokenBody(Undefined, Undefined, Undefined, Undefined, Undefined, Undefined,
               Undefined, Undefined, Undefined, <<>>)
       EXCEPT !.twitterLink = Undefined, !.websiteLink = Undefined,
              !.telegramLink = Undefined]

TKIdle ==
    [called |-> FALSE, clientOk |-> FALSE, jsonOk |-> FALSE, body |-> EmptyBody,
     response |-> TKResponse(0, FALSE, "", 0)]

\* The handler's exchange as seen from outside: what it was sent, whether the
\* store client was available, and what it answered.
TKExchange(body, clientOk, jsonOk, response) ==
    [called |-> TRUE, clientOk |-> clientOk, jsonOk |-> jsonOk, body |-> body,
     response |-> response]

\* Variant: the document is the request body as received ({ ...data, createdAt }).
TokenDocumentSpread(data) == data

\* const token: TokenData = { tokenName: data.tokenName, ..., createdAt }
TokenDocument(data) ==
    [tokenName |-> data.tokenName, tokenSymbol |-> data.tokenSymbol,
     tokenDescription |-> data.tokenDescription, imageUrl |-> data.imageUrl,
     twitterLink |-> data.twitterLink, websiteLink |-> data.websiteLink,
     telegramLink |-> data.telegramLink, fundingWallet |-> data.fundingWallet,
     fundingSignature |-> data.fundingSignature, solAmount |-> data.solAmount,
     targetWallet |-> data.targetWallet]

\* The whole handler. clientOk: `await clientPromise` resolves; jsonOk:
\* request.json() resolves (to body); insertOk: insertOne resolves.
\* Yields the response and the collection afterwards.
TokensPOST(body, clientOk, jsonOk, insertOk, coll) ==
    IF ~clientOk \/ ~jsonOk
    THEN [response |-> TKResponse(500, FALSE, "Failed to store token data", 0), coll |-> coll]
    ELSE IF Falsy(body.targetWallet)
    THEN [response |-> TKResponse(400, FALSE, "Missing target wallet data", 0), coll |-> coll]
    ELSE IF ~insertOk
    THEN [response |-> TKResponse(500, FALSE, "Failed to store token data", 0), coll |-> coll]
    ELSE [response |-> TKResponse(200, TRUE, "", Len(coll) + 1),
          coll |-> Append(coll, TokenDocument(body))]

\* ------------------------------------------------- generate-wallet handler
\* BASE_AMOUNT = 3.125 * LAMPORTS_PER_SOL, held in units of 10^6 lamports
\* (0.001 SOL) so that it stays within the checker's integers.
GW_BASE_AMOUNT == 3125

GWIdle ==
    [called |-> FALSE, insertError |-> "",
     response |-> [status |-> 0, success |-> FALSE, error |-> "", id |-> "",
                   publicKey |-> "", mintPublicKey |-> "", requiredAmount |-> 0]]

\* crypto.randomUUID() of run r
WalletId(r) == "uuid" \o ToString(r)

\* keysCollection.insertOne({walletId, keypair, mint, publicKey, mintPublicKey, createdAt})
KeysDocument(r) ==
    [walletId |-> WalletId(r), keypair |-> SecretKey(SpendKey(r)),
     mint |-> SecretKey(MintKey(r)), publicKey |-> ToBase58(SpendKey(r)),
     mintPublicKey |-> ToBase58(MintKey(r))]

\* Variant: the insert is not awaited, so its rejection is never seen and the
\* handler answers with the wallet although no record was stored.
GenerateWalletPOSTInsertNotAwaited(r, clientError, insertError, coll) ==
    IF clientError # ""
    THEN [response |-> [status |-> 500, success |-> FALSE, error |-> clientError,
                        id |-> "", publicKey |-> "", mintPublicKey |-> "",
                        requiredAmount |-> 0],
          coll |-> coll]
    ELSE [response |-> [status |-> 200, success |-> TRUE, error |-> "",
                        id |-> WalletId(r), publicKey |-> ToBase58(SpendKey(r)),
                        mintPublicKey |-> ToBase58(MintKey(r)),
                        requiredAmount |-> GW_BASE_AMOUNT],
          coll |-> IF insertError # "" THEN coll ELSE Append(coll, KeysDocument(r))]

\* The whole handler, in run r. clientError / insertError: "" or the message
\* of the Error `await clientPromise` / insertOne rejects with.
\* requiredAmount is AMOUNT_NEEDED / LAMPORTS_PER_SOL, in units of 0.001 SOL.
GenerateWalletPOST(r, clientError, insertError, coll) ==
    IF clientError # "" \/ insertError # ""
    THEN [response |-> [status |-> 500, success |-> FALSE,
                        error |-> IF clientError # "" THEN clientError ELSE insertError,
                        id |-> "", publicKey |-> "", mintPublicKey |-> "",
                        requiredAmount |-> 0],
          coll |-> coll]
    ELSE [response |-> [status |-> 200, success |-> TRUE, error |-> "",
                        id |-> WalletId(r), publicKey |-> ToBase58(SpendKey(r)),
                        mintPublicKey |-> ToBase58(MintKey(r)),
                        requiredAmount |-> GW_BASE_AMOUNT],
          coll |-> Append(coll, KeysDocument(r))]

MaybeError == {""} \cup ExternalErrors

\* ------------------------- generate-wallet: requests running concurrently
\* Number of generate-wallet requests in flight at once.
MaxConcurrent == 3

Procs == 1..MaxConcurrent

\* newKeypair, mintKeypair, walletId before they are assigned.
GWCNoLocals == [newKeypair |-> 0, mintKeypair |-> 0, walletId |-> ""]

GWCNoDocument == [walletId |-> "", keypair |-> "", mint |-> "", publicKey |-> "", mintPublicKey |-> ""]

GWCNoResponse == [status |-> 0, success |-> FALSE, error |-> "", id |-> "", publicKey |-> "", mintPublicKey |-> "", requiredAmount |-> 0]

\* generated: how many values Keypair.generate() and crypto.randomUUID() have
\* drawn so far; locals: the handler invocations' local variables; req: each
\* request's position, the document it passed to insertOne, and its response.
GWCIdle ==
    [generated |-> 0,
     locals |-> [s \in Procs |-> GWCNoLocals],
     req |-> [p \in Procs |-> [pc |-> "idle", inserted |-> GWCNoDocument,
                               response |-> GWCNoResponse]]]

\* Variant: the handler's variables are module-level, one set for all requests.
GWCSlotShared(p) == 1

\* const newKeypair, mintKeypair, walletId: each invocation of POST has its own.
GWCSlot(p) == p

\* The document passed to keysCollection.insertOne.
GWCDocument(l) ==
    [walletId |-> l.walletId, keypair |-> SecretKey(l.newKeypair),
     mint |-> SecretKey(l.mintKeypair), publicKey |-> ToBase58(l.newKeypair),
     mintPublicKey |-> ToBase58(l.mintKeypair)]

\* catch (error): { success: false, error: error.message }, status 500
GWCFailure(e) == [GWCNoResponse EXCEPT !.status = 500, !.error = e]

\* walletInfo, read from the local variables when the response is built.
GWCSuccess(l) ==
    [status |-> 200, success |-> TRUE, error |-> "", id |-> l.walletId,
     publicKey |-> ToBase58(l.newKeypair), mintPublicKey |-> ToBase58(l.mintKeypair),
     requiredAmount |-> GW_BASE_AMOUNT]

\* A request arrives and the handler runs up to `await clientPromise`.
GWCReceive(p) ==
    /\ gwc.req[p].pc = "idle"
    /\ gwc' = [gwc EXCEPT !.req[p].pc = "client"]
    /\ UNCHANGED <<env, bh, fin, runs, active, cs, tk, gw, fw, ar, tokens, keys, minted, issued>>

\* `await clientPromise` settles. When it resolves, the handler runs without
\* interruption to its next await: Keypair.generate() twice, crypto.randomUUID(),
\* and the call of insertOne with the document built from them.
GWCClient(p) ==
    /\ gwc.req[p].pc = "client"
    /\ \/ \E e \in ExternalErrors :
            gwc' = [gwc EXCEPT !.req[p].pc = "done", !.req[p].response = GWCFailure(e)]
       \/ LET g == gwc.generated
              l == [newKeypair |-> g + 1, mintKeypair |-> g + 2, walletId |-> WalletId(g + 3)]
          IN gwc' = [gwc EXCEPT !.generated = g + 3,
                                !.locals[GWCSlot(p)] = l,
                                !.req[p].inserted = GWCDocument(l),
                                !.req[p].pc = "insert"]
    /\ UNCHANGED <<env, bh, fin, runs, active, cs, tk, gw, fw, ar, tokens, keys, minted, issued>>

\* `await keysCollection.insertOne(...)` settles; the response is built.
GWCInsert(p) ==
    /\ gwc.req[p].pc = "insert"
    /\ \/ \E e \in ExternalErrors :
            /\ gwc' = [gwc EXCEPT !.req[p].pc = "done", !.req[p].response = GWCFailure(e)]
            /\ UNCHANGED keys
       \/ /\ keys' = Append(keys, gwc.req[p].inserted)
          /\ gwc' = [gwc EXCEPT !.req[p].pc = "done",
                                !.req[p].response = GWCSuccess(gwc.locals[GWCSlot(p)])]
    /\ UNCHANGED <<env, bh, fin, runs, active, cs, tk, gw, fw, ar, tokens, minted, issued>>

\* The handler's exchange as seen from outside: its response, and what
\* insertOne rejected with ("" when it resolved or was not reached, which is
\* the case when `await clientPromise` rejected).
GWExchange(clientError, insertError, response) ==
    [called |-> TRUE, insertError |-> IF clientError # "" THEN "" ELSE insertError,
     response |-> response]

\* ------------------------------------------ form workflow: handleSubmitSOL
FORM_BASE_AMOUNT == 25000000
FORM_MAX_RETRIES == 3
ESTIMATED_FEE == 5000

\* Balances connection.getBalance(publicKey) may report for the connected wallet.
FormFundingBalances == {0, FORM_BASE_AMOUNT - 1, FORM_BASE_AMOUNT}

\* Balances of the new wallet the sweep may find.
RemainingBalances == {0, ESTIMATED_FEE, ESTIMATED_FEE + 1}

FWIdle ==
    [pc |-> "idle", toastError |-> "", retryCount |-> 0, fundingWalletBalance |-> 0,
     i |-> 0, fetched |-> 0, lastValidBlockHeight |-> 0, signed |-> FALSE, sends |-> 0,
     confirmed |-> FALSE, createSolRequests |-> 0, tokenUrl |-> Undefined,
     toastSuccess |-> FALSE, sweepAmount |-> 0, sweepSends |-> 0,
     sweepFailed |-> FALSE, storeCalls |-> 0, error |-> ""]

\* catch (err) { setError(errorMessage); toast.error(errorMessage) }
FWCatch(f, e) == [f EXCEPT !.pc = "done", !.error = e, !.toastError = e]

\* The three early returns before the try block.
FormSubmit ==
    /\ fw.pc = "submit"
    /\ \E publicKey \in BOOLEAN, file \in BOOLEAN, named \in BOOLEAN :
         fw' = IF ~publicKey
               THEN [fw EXCEPT !.pc = "done", !.toastError = "Please connect your wallet first"]
               ELSE IF ~file
               THEN [fw EXCEPT !.pc = "done", !.toastError = "Please select a token image"]
               ELSE IF ~named
               THEN [fw EXCEPT !.pc = "done",
                               !.toastError = "Please enter token name and symbol"]
               ELSE [fw EXCEPT !.pc = "connect"]
    /\ UNCHANGED <<env, bh, gwc, fin, runs, active, cs, tk, gw, ar, tokens, keys, minted, issued>>

\* One pass of `while (!connection && retryCount < MAX_RETRIES)`, with the
\* delay of its catch, and `if (!connection) throw` after the loop.
\* retryCount is not read once the loop is left.
FormConnect ==
    /\ fw.pc = "connect"
    /\ \E ok \in BOOLEAN :
         fw' = IF ok THEN [fw EXCEPT !.retryCount = 0, !.pc = "getBalance"]
               ELSE IF fw.retryCount + 1 < FORM_MAX_RETRIES
               THEN [fw EXCEPT !.retryCount = @ + 1]
               ELSE FWCatch([fw EXCEPT !.retryCount = @ + 1],
                            "Failed to establish connection")
    /\ UNCHANGED <<env, bh, gwc, fin, runs, active, cs, tk, gw, ar, tokens, keys, minted, issued>>

\* if (fundingWalletBalance < BASE_AMOUNT) throw new Error(...)
FormInsufficient(balance) == balance < FORM_BASE_AMOUNT

\* const fundingWalletBalance = await connection.getBalance(publicKey); the
\* check; the transaction and the two keypairs are built.
FormGetBalance ==
    /\ fw.pc = "getBalance"
    /\ \/ \E e \in ExternalErrors : fw' = FWCatch(fw, e)
       \/ \E balance \in FormFundingBalances :
            LET f == [fw EXCEPT !.fundingWalletBalance = balance] IN
            fw' = IF FormInsufficient(balance)
                  THEN FWCatch(f, "Insufficient balance in main wallet. Required: 0.025 SOL")
                  ELSE [f EXCEPT !.pc = "blockhash", !.i = 0]
    /\ UNCHANGED <<env, bh, gwc, fin, runs, active, cs, tk, gw, ar, tokens, keys, minted, issued>>

\* transaction.lastValidBlockHeight = blockHashData.lastValidBlockHeight + 150
FormValidity(height) == height + VALIDITY_MARGIN

\* The transaction's blockhash fields are read last by signed.serialize().
FWDropTransaction(f) == [f EXCEPT !.fetched = 0, !.lastValidBlockHeight = 0]

\* One attempt of the blockhash loop (i is the loop's own variable); after `break`,
\* `if (!signTransaction) throw new Error("Wallet adapter not connected")`.
FormBlockhash ==
    /\ fw.pc = "blockhash"
    /\ \E o \in CallOutcomes, h \in BlockHeights, signTransaction \in BOOLEAN :
         fw' = IF o.kind = "throw"
               THEN IF fw.i = FORM_MAX_RETRIES - 1 THEN FWCatch(fw, o.error)
                    ELSE [fw EXCEPT !.pc = "blockhashDelay"]
               ELSE IF ~signTransaction
               THEN FWCatch([fw EXCEPT !.i = 0], "Wallet adapter not connected")
               ELSE [fw EXCEPT !.i = 0, !.fetched = h,
                               !.lastValidBlockHeight = FormValidity(h), !.pc = "sign"]
    /\ UNCHANGED <<env, bh, gwc, fin, runs, active, cs, tk, gw, ar, tokens, keys, minted, issued>>

FormBlockhashDelay ==
    /\ fw.pc = "blockhashDelay"
    /\ fw' = [fw EXCEPT !.i = @ + 1, !.pc = "blockhash"]
    /\ UNCHANGED <<env, bh, gwc, fin, runs, active, cs, tk, gw, ar, tokens, keys, minted, issued>>

\* const signed = await signTransaction(transaction)
FormSign ==
    /\ fw.pc = "sign"
    /\ \E o \in CallOutcomes :
         fw' = IF o.kind = "throw" THEN FWCatch(FWDropTransaction(fw), o.error)
               ELSE [fw EXCEPT !.signed = TRUE, !.pc = "send"]
    /\ UNCHANGED <<env, bh, gwc, fin, runs, active, cs, tk, gw, ar, tokens, keys, minted, issued>>

\* const signature = await connection.sendRawTransaction(signed.serialize(), ...)
FormSend ==
    /\ fw.pc = "send"
    /\ \E o \in CallOutcomes :
         LET f == FWDropTransaction([fw EXCEPT !.sends = @ + 1]) IN
         fw' = IF o.kind = "throw" THEN FWCatch(f, o.error)
               ELSE [f EXCEPT !.pc = "confirm"]
    /\ UNCHANGED <<env, bh, gwc, fin, runs, active, cs, tk, gw, ar, tokens, keys, minted, issued>>

\* Variant: a rejected confirmation is swallowed and the workflow goes on.
FormAfterConfirmSwallowed(f, o) ==
    [f EXCEPT !.confirmed = (o.kind # "throw"), !.pc = "getNewBalance"]

\* await connection.confirmTransaction(signature, "confirmed"): a rejection
\* reaches the catch; otherwise the workflow goes on.
FormAfterConfirm(f, o) ==
    IF o.kind = "throw" THEN FWCatch(f, o.error)
    ELSE [f EXCEPT !.confirmed = TRUE, !.pc = "getNewBalance"]

FormConfirm ==
    /\ fw.pc = "confirm"
    /\ \E o \in CallOutcomes : fw' = FormAfterConfirm(fw, o)
    /\ UNCHANGED <<env, bh, gwc, fin, runs, active, cs, tk, gw, ar, tokens, keys, minted, issued>>

\* const balance = await connection.getBalance(newKeypair.publicKey); then
\* createToken posts the form data, walletData included, to create-sol.
FormGetNewBalance ==
    /\ fw.pc = "getNewBalance"
    /\ \E o \in CallOutcomes :
         IF o.kind = "throw"
         THEN fw' = FWCatch(fw, o.error) /\ UNCHANGED cs
         ELSE /\ fw' = [fw EXCEPT !.pc = "awaitCreateSol", !.createSolRequests = @ + 1]
              /\ cs' = CSRequest("form", "form", "valid", MintKey(runs))
    /\ UNCHANGED <<env, bh, gwc, fin, runs, active, tk, gw, ar, tokens, keys, minted, issued>>

\* createToken's check of the response, then setWallet and the success toast.
\* The handler's request is over once its response has been read.
FormCreateSolReturned ==
    /\ fw.pc = "awaitCreateSol"
    /\ cs.pc = "done"
    /\ fw' = IF cs.response.status # 200 \/ ~cs.response.success
             THEN FWCatch(fw, IF cs.response.error # "" THEN cs.response.error
                              ELSE "Failed to create token")
             ELSE [fw EXCEPT !.tokenUrl = cs.response.tokenUrl, !.toastSuccess = TRUE,
                             !.pc = IF env.NEXT_PUBLIC_PRIVATE_KEY # Undefined
                                    THEN "sweepBalance" ELSE "store"]
    /\ cs' = CSIdle
    /\ UNCHANGED <<env, bh, gwc, fin, runs, active, tk, gw, ar, tokens, keys, minted, issued>>

\* catch (transferError) { toast.error("Failed to transfer remaining balance") }
FWSweepCatch(f) == [f EXCEPT !.sweepFailed = TRUE, !.pc = "store"]

\* Variant: the whole remaining balance is transferred.
SweepTransferAmountAll(remainingBalance) == remainingBalance

\* const transferAmount = remainingBalance - estimatedFee
SweepTransferAmount(remainingBalance) == remainingBalance - ESTIMATED_FEE

\* remainingBalance, transferAmount and `if (transferAmount > 0)`.
FormSweepBalance ==
    /\ fw.pc = "sweepBalance"
    /\ \/ \E e \in ExternalErrors : fw' = FWSweepCatch(fw)
       \/ \E remainingBalance \in RemainingBalances :
            LET transferAmount == SweepTransferAmount(remainingBalance) IN
            fw' = IF transferAmount > 0
                  THEN [fw EXCEPT !.sweepAmount = transferAmount, !.pc = "sweepSend"]
                  ELSE [fw EXCEPT !.pc = "store"]
    /\ UNCHANGED <<env, bh, gwc, fin, runs, active, cs, tk, gw, ar, tokens, keys, minted, issued>>

\* getLatestBlockhash, sign, then sendRawTransaction of the sweep transfer.
FormSweepSend ==
    /\ fw.pc = "sweepSend"
    /\ \E blockhash \in CallOutcomes, send \in CallOutcomes :
         fw' = IF blockhash.kind = "throw" THEN FWSweepCatch(fw)
               ELSE IF send.kind = "throw"
               THEN FWSweepCatch([fw EXCEPT !.sweepSends = @ + 1])
               ELSE [fw EXCEPT !.sweepSends = @ + 1, !.pc = "sweepConfirm"]
    /\ UNCHANGED <<env, bh, gwc, fin, runs, active, cs, tk, gw, ar, tokens, keys, minted, issued>>

\* confirmTransaction of the sweep, the toast, and the final getBalance.
FormSweepConfirm ==
    /\ fw.pc = "sweepConfirm"
    /\ \E confirm \in CallOutcomes, balance \in CallOutcomes :
         fw' = IF confirm.kind = "throw" \/ balance.kind = "throw"
               THEN FWSweepCatch(fw)
               ELSE [fw EXCEPT !.pc = "store"]
    /\ UNCHANGED <<env, bh, gwc, fin, runs, active, cs, tk, gw, ar, tokens, keys, minted, issued>>

\* newWallet as it stands when the token data is stored.
FormWallet(f, r) ==
    [name |-> "Token Wallet", publicKey |-> ToBase58(SpendKey(r)),
     keypair |-> SecretKey(SpendKey(r)), mint |-> SecretKey(MintKey(r)),
     tokenUrl |-> f.tokenUrl]

\* const tokenData = { tokenName, ..., wallets: [newWallet], fundingWallet }
FormTokenData(f, r) ==
    TokenBody("Name", "SYM", "Desc", "data:image", Undefined, "pkUser",
              Undefined, Undefined, Undefined, <<FormWallet(f, r)>>)

\* fetch("/api/tokens", ...) and `if (!storeResult.success) throw`.
FormStore ==
    /\ fw.pc = "store"
    /\ \E clientOk \in BOOLEAN, insertOk \in BOOLEAN :
         LET body == FormTokenData(fw, runs)
             res == TokensPOST(body, clientOk, TRUE, insertOk, tokens)
             f == [fw EXCEPT !.storeCalls = @ + 1] IN
         /\ tk' = TKExchange(body, clientOk, TRUE, res.response)
         /\ tokens' = res.coll
         /\ fw' = IF ~res.response.success THEN FWCatch(f, "Failed to store token data")
                  ELSE [f EXCEPT !.pc = "done"]
    /\ UNCHANGED <<env, bh, gwc, fin, runs, active, cs, gw, ar, keys, minted, issued>>

\* ------------------------------------------------------ authenticated route
ROUTE_BASE_AMOUNT == 30000000
IMAGE_URL == "https://assets.agent.playai.network/avatar.jpg"

\* request.headers.get('authorization') is null when the header is missing.
Null == "<null>"

\* Template literal conversion `${v}`: undefined prints as "undefined".
TemplateString(v) == IF v = Undefined THEN "undefined" ELSE v

\* Variant: only the presence of the header is checked.
AuthorizedIfPresent(authHeader, apiKey) == authHeader # Null /\ authHeader # ""

\* The negation of `!authHeader || authHeader !== `Bearer ${apiKey}``.
Authorized(authHeader, apiKey) ==
    ~(authHeader = Null \/ authHeader = "" \/ authHeader # "Bearer " \o TemplateString(apiKey))

AuthHeaders == {Null, "", "k1", "Bearer k1", "Bearer k2", "Bearer undefined"}

\* Balances of the agent wallet on-chain when the transfer is sent.
AgentBalances == {ROUTE_BASE_AMOUNT - 1, ROUTE_BASE_AMOUNT}

ARResponse(status, error, message, tokenId) ==
    [status |-> status, error |-> error, message |-> message, tokenId |-> tokenId]

ARIdle ==
    [pc |-> "idle", authHeader |-> Null, body |-> "none", agentBalance |-> 0,
     walletGenerated |-> FALSE, fetched |-> 0, lastValidBlockHeight |-> 0,
     signed |-> FALSE, sends |-> 0, confirmed |-> FALSE,
     fundingSignature |-> "", storeCalls |-> 0, tokenId |-> 0,
     createSolRequests |-> 0, response |-> ARResponse(0, "", "", 0)]

\* catch (error) { return NextResponse.json({ error: 'Token creation failed' }, { status: 500 }) }
ARCatch(a) ==
    [a EXCEPT !.pc = "done", !.response = ARResponse(500, "Token creation failed", "", 0)]

\* The authorization check and `const data = await request.json()`.
AuthCheck ==
    /\ ar.pc = "check"
    /\ ar' = IF ~Authorized(ar.authHeader, env.NEXT_PUBLIC_PY_API_KEY)
             THEN [ar EXCEPT !.pc = "done", !.response = ARResponse(401, "Unauthorized", "", 0)]
             ELSE IF ar.body = "notjson" THEN ARCatch(ar)
             ELSE [ar EXCEPT !.pc = "generateWallet"]
    /\ UNCHANGED <<env, bh, gwc, fin, runs, active, cs, tk, gw, fw, tokens, keys, minted, issued>>

\* const walletInfo = await generateWallet(); new Connection(RPC_URL, ...);
\* `if (!AGENT_WALLET) throw`; the transfer transaction is built.
AuthGenerateWallet ==
    /\ ar.pc = "generateWallet"
    /\ \E clientError \in MaybeError, insertError \in MaybeError, connectionOk \in BOOLEAN :
         LET res == GenerateWalletPOST(runs, clientError, insertError, keys) IN
         /\ gw' = GWExchange(clientError, insertError, res.response)
         /\ keys' = res.coll
         /\ ar' = IF ~res.response.success THEN ARCatch(ar)
                  ELSE LET a == [ar EXCEPT !.walletGenerated = TRUE] IN
                       IF ~connectionOk \/ env.NEXT_PUBLIC_AGENT_WALLET = Undefined
                       THEN ARCatch(a)
                       ELSE [a EXCEPT !.pc = "blockhash"]
    /\ UNCHANGED <<env, bh, gwc, fin, runs, active, cs, tk, fw, tokens, minted, issued>>

\* transaction.lastValidBlockHeight = lastValidBlockHeight
AuthValidity(height) == height

\* await connection.getLatestBlockhash(), called once with no retry loop;
\* transaction.sign(agentKeypair).
AuthBlockhash ==
    /\ ar.pc = "blockhash"
    /\ \E o \in CallOutcomes, h \in BlockHeights :
         ar' = IF o.kind = "throw" THEN ARCatch(ar)
               ELSE [ar EXCEPT !.fetched = h, !.lastValidBlockHeight = AuthValidity(h),
                               !.signed = TRUE, !.pc = "send"]
    /\ UNCHANGED <<env, bh, gwc, fin, runs, active, cs, tk, gw, fw, tokens, keys, minted, issued>>

\* const fundingSignature = await connection.sendRawTransaction(transaction.serialize())
AuthSend ==
    /\ ar.pc = "send"
    /\ \E o \in CallOutcomes :
         LET a == [ar EXCEPT !.sends = @ + 1, !.fetched = 0, !.lastValidBlockHeight = 0] IN
         ar' = IF o.kind = "throw" THEN ARCatch(a)
               ELSE [a EXCEPT !.fundingSignature = "sig" \o ToString(runs), !.pc = "confirm"]
    /\ UNCHANGED <<env, bh, gwc, fin, runs, active, cs, tk, gw, fw, tokens, keys, minted, issued>>

\* Variant: a rejected confirmation sends the transfer again.
AuthAfterConfirmResend(a, o) ==
    IF o.kind = "throw" THEN [a EXCEPT !.pc = "send"]
    ELSE [a EXCEPT !.confirmed = TRUE, !.pc = "store"]

\* await connection.confirmTransaction(fundingSignature)
AuthAfterConfirm(a, o) ==
    IF o.kind = "throw" THEN ARCatch(a)
    ELSE [a EXCEPT !.confirmed = TRUE, !.pc = "store"]

AuthConfirm ==
    /\ ar.pc = "confirm"
    /\ \E o \in CallOutcomes : ar' = AuthAfterConfirm(ar, o)
    /\ UNCHANGED <<env, bh, gwc, fin, runs, active, cs, tk, gw, fw, tokens, keys, minted, issued>>

\* storeTokenData's tokenData: the image URL goes into the field `image`.
StoreTokenData(tokenName, tokenSymbol, tokenDesc, fundingSignature, fundingWallet, imageUrl, targetWallet, solAmount) ==
    TokenBody(tokenName, tokenSymbol, tokenDesc, Undefined, imageUrl, fundingWallet,
              fundingSignature, solAmount, targetWallet, <<>>)

\* const tokenId = await storeTokenData(data.memecoin.name, ...); then the
\* JSON request to create-sol is sent. Reading data.memecoin.name of a body
\* without memecoin throws.
AuthStore ==
    /\ ar.pc = "store"
    /\ IF ar.body = "nomemecoin"
       THEN ar' = ARCatch(ar) /\ UNCHANGED <<tk, tokens, cs>>
       ELSE \E clientOk \in BOOLEAN, insertOk \in BOOLEAN :
              LET body == StoreTokenData("Name", "SYM", "Desc", ar.fundingSignature,
                                         "pkAgent", IMAGE_URL,
                                         gw.response.publicKey, "0.001")
                  res == TokensPOST(body, clientOk, TRUE, insertOk, tokens)
                  a == [ar EXCEPT !.storeCalls = @ + 1] IN
              /\ tk' = TKExchange(body, clientOk, TRUE, res.response)
              /\ tokens' = res.coll
              /\ IF ~res.response.success
                 THEN ar' = ARCatch(a) /\ UNCHANGED cs
                 ELSE /\ ar' = [a EXCEPT !.tokenId = res.response.tokenId,
                                         !.createSolRequests = @ + 1,
                                         !.pc = "awaitCreateSol"]
                      /\ cs' = CSRequest("auth", "json", "none", 0)
    /\ UNCHANGED <<env, bh, gwc, fin, runs, active, gw, fw, keys, minted, issued>>

\* Variant: a failed mint is compensated by deleting the record just stored.
AuthCreateSolReturnedRollback ==
    /\ ar.pc = "awaitCreateSol"
    /\ cs.pc = "done"
    /\ ar' = IF ~cs.response.success THEN ARCatch(ar)
             ELSE [ar EXCEPT !.pc = "done",
                             !.response = ARResponse(200, "", "Token created successfully",
                                                     ar.tokenId)]
    /\ tokens' = IF ~cs.response.success THEN SubSeq(tokens, 1, ar.tokenId - 1) ELSE tokens
    /\ cs' = CSIdle
    /\ UNCHANGED <<env, bh, gwc, fin, runs, active, tk, gw, fw, keys, minted, issued>>

\* const result = await tokenResponse.json(); if (!result.success) throw; the answer.
AuthCreateSolReturned ==
    /\ ar.pc = "awaitCreateSol"
    /\ cs.pc = "done"
    /\ ar' = IF ~cs.response.success THEN ARCatch(ar)
             ELSE [ar EXCEPT !.pc = "done",
                             !.response = ARResponse(200, "", "Token created successfully",
                                                     ar.tokenId)]
    /\ cs' = CSIdle
    /\ UNCHANGED <<env, bh, gwc, fin, runs, active, tk, gw, fw, tokens, keys, minted, issued>>

\* The request in progress has been answered (or none was made yet).
Finished ==
    CASE active = "createSol" -> cs.pc = "done"
      [] active = "form" -> fw.pc = "done"
      [] active = "auth" -> ar.pc = "done"
      [] active = "finalize" -> fin.pc = "done"
      [] OTHER -> TRUE

\* ------------------------------------------- post-mint finalization workflow
\* PriceProbe and TokenRecordStore.update are not among the sources at hand;
\* they are modelled from sections 2, 3, 4.4 and 4.5 of the specification.
PROBE_MAX_ATTEMPTS == 5
EMPTY_BACKOFF == 3
ERROR_BACKOFF == 5

\* Bound on the number of times the caller applies its patch to one record.
MaxUpdates == 2

FinIdle ==
    [pc |-> "idle", id |-> 0, mint |-> 0, attempt |-> 0, positives |-> 0, slept |-> 0,
     found |-> FALSE, price |-> 0, updates |-> 0, afterFirst |-> [tokenUrl |-> Undefined]]

\* What one poll of the market-data endpoint yields: pairs with a price
\* (possibly not positive), an empty result, or a request error.
ProbeOutcomes ==
    {[kind |-> "pairs", price |-> p] : p \in {0, 1, 2}}
    \cup {[kind |-> "empty", price |-> 0], [kind |-> "error", price |-> 0]}

\* Variant: a price of zero is accepted as well.
ProbeAcceptsNonNegative(o) == o.kind = "pairs" /\ o.price >= 0

\* "accepting the first strictly-positive price found"
ProbeAccepts(o) == o.kind = "pairs" /\ o.price > 0

\* Variant: the retry budget is one attempt too long.
ProbeExhaustedOffByOne(attempt) == attempt > PROBE_MAX_ATTEMPTS

\* "polls ... up to 5 times"
ProbeExhausted(attempt) == attempt >= PROBE_MAX_ATTEMPTS

\* "3s after an empty result, 5s after a request error"
ProbeBackoff(o) == IF o.kind = "error" THEN ERROR_BACKOFF ELSE EMPTY_BACKOFF

\* One poll of PriceProbe: a positive price is returned at once; otherwise the
\* probe sleeps and polls again, or returns null when its budget is used up.
ProbePoll ==
    /\ fin.pc = "probe"
    /\ \E o \in ProbeOutcomes :
         LET f == [fin EXCEPT !.attempt = @ + 1,
                              !.positives = IF o.kind = "pairs" /\ o.price > 0
                                            THEN @ + 1 ELSE @] IN
         fin' = IF ProbeAccepts(o)
                THEN [f EXCEPT !.found = TRUE, !.price = o.price, !.pc = "update"]
                ELSE LET g == [f EXCEPT !.slept = @ + ProbeBackoff(o)] IN
                     IF ProbeExhausted(g.attempt) THEN [g EXCEPT !.pc = "update"]
                     ELSE g
    /\ UNCHANGED <<env, bh, gwc, runs, active, cs, tk, gw, fw, ar, tokens, keys, minted, issued>>

\* The patch attached post-mint: tokenUrl and, when a price was found, the price.
FinalPatch(f) ==
    IF f.found THEN [tokenUrl |-> TokenUrl(f.mint), initialPriceInSol |-> f.price]
    ELSE [tokenUrl |-> TokenUrl(f.mint)]

\* Variant: the price of the patch is added to the stored price.
UpdateAccumulating(coll, id, patch) ==
    IF id \notin DOMAIN coll THEN coll
    ELSE LET doc == coll[id]
             summed == IF "initialPriceInSol" \in DOMAIN doc
                          /\ "initialPriceInSol" \in DOMAIN patch
                       THEN [patch EXCEPT !.initialPriceInSol = @ + doc.initialPriceInSol]
                       ELSE patch
         IN  [coll EXCEPT ![id] = summed @@ doc]

\* update(id, patch): the fields of the patch are set on record id; the other
\* fields stay; an unknown id changes nothing.
Update(coll, id, patch) ==
    IF id \notin DOMAIN coll THEN coll
    ELSE [coll EXCEPT ![id] = patch @@ coll[id]]

\* A workflow whose funding was confirmed and whose mint has succeeded: its
\* record was created with the funding signature; the price probe starts.
FinalizeStart ==
    /\ Finished
    /\ runs < MaxRuns
    /\ runs' = runs + 1
    /\ active' = "finalize"
    /\ LET r == runs + 1
           body == StoreTokenData("Name", "SYM", "Desc", "sig" \o ToString(r), "pkAgent",
                                  IMAGE_URL, ToBase58(SpendKey(r)), "0.001")
           res == TokensPOST(body, TRUE, TRUE, TRUE, tokens) IN
       /\ tokens' = res.coll
       /\ minted' = minted \cup {MintKey(r)}
       /\ fin' = [FinIdle EXCEPT !.pc = "probe", !.id = res.response.tokenId,
                                 !.mint = MintKey(r)]
    /\ UNCHANGED <<env, bh, gwc, cs, tk, gw, fw, ar, keys, issued>>

\* The record is finalized: update(id, patch) with the outcome of the probe.
FinalizeUpdate ==
    /\ fin.pc = "update"
    /\ tokens' = Update(tokens, fin.id, FinalPatch(fin))
    /\ fin' = [fin EXCEPT !.pc = "done", !.updates = 1, !.afterFirst = tokens'[fin.id]]
    /\ UNCHANGED <<env, bh, gwc, runs, active, cs, tk, gw, fw, ar, keys, minted, issued>>

\* The caller retries its request after a partial failure and applies the
\* same patch again.
FinalizeRetry ==
    /\ fin.pc = "done"
    /\ fin.updates < MaxUpdates
    /\ tokens' = Update(tokens, fin.id, FinalPatch(fin))
    /\ fin' = [fin EXCEPT !.updates = @ + 1]
    /\ UNCHANGED <<env, bh, gwc, runs, active, cs, tk, gw, fw, ar, keys, minted, issued>>

\* ----------------------------------------------------- top-level requests
\* A new top-level request starts with fresh per-request state.
Start(kind) ==
    /\ Finished
    /\ runs < MaxRuns
    /\ runs' = runs + 1
    /\ active' = kind
    /\ UNCHANGED <<env, bh, gwc, minted, issued>>

\* An HTTP client posts to create-sol directly. The mint keypair it supplies
\* is a fresh one or the one of the first run (a keypair used before).
ClientCreateSol ==
    /\ Start("createSol")
    /\ \E body \in {"form", "json"}, wd \in {"none", "malformed", "badkey", "valid"},
          mintKey \in {MintKey(1), MintKey(runs + 1)} :
         cs' = CSRequest("client", body, IF body = "json" THEN "none" ELSE wd, mintKey)
    /\ tk' = TKIdle /\ gw' = GWIdle /\ fw' = FWIdle /\ ar' = ARIdle
    /\ UNCHANGED <<tokens, keys, fin>>

\* A wallets entry as the form builds it (WalletInfo), for the first two keys.
ClientWallet ==
    [name |-> "Token Wallet", publicKey |-> ToBase58(1), keypair |-> SecretKey(1),
     mint |-> SecretKey(2), tokenUrl |-> TokenUrl(2)]

\* Bodies an HTTP client may post to tokens; the last one carries a wallets
\* array with keypair and mint bytes next to the fields the handler names.
ClientTokenBodies ==
    {EmptyBody,
     [EmptyBody EXCEPT !.targetWallet = ""],
     [EmptyBody EXCEPT !.targetWallet = "pkT", !.imageUrl = "img", !.image = "other"],
     TokenBody("Name", "SYM", "Desc", "img", Undefined, "pkF", "sigF", "0.001", "pkT",
               <<ClientWallet>>)}

\* An HTTP client posts to tokens directly.
ClientTokens ==
    /\ Start("tokens")
    /\ \E body \in ClientTokenBodies, clientOk \in BOOLEAN, jsonOk \in BOOLEAN,
          insertOk \in BOOLEAN :
         LET res == TokensPOST(body, clientOk, jsonOk, insertOk, tokens) IN
         /\ tk' = TKExchange(body, clientOk, jsonOk, res.response)
         /\ tokens' = res.coll
    /\ cs' = CSIdle /\ gw' = GWIdle /\ fw' = FWIdle /\ ar' = ARIdle
    /\ UNCHANGED <<keys, fin>>

\* An HTTP client posts to generate-wallet directly.
ClientGenerateWallet ==
    /\ Start("generateWallet")
    /\ \E clientError \in MaybeError, insertError \in MaybeError :
         LET res == GenerateWalletPOST(runs + 1, clientError, insertError, keys) IN
         /\ gw' = GWExchange(clientError, insertError, res.response)
         /\ keys' = res.coll
    /\ cs' = CSIdle /\ tk' = TKIdle /\ fw' = FWIdle /\ ar' = ARIdle
    /\ UNCHANGED <<tokens, fin>>

\* The user submits the form.
ClientForm ==
    /\ Start("form")
    /\ fw' = [FWIdle EXCEPT !.pc = "submit"]
    /\ cs' = CSIdle /\ tk' = TKIdle /\ gw' = GWIdle /\ ar' = ARIdle
    /\ UNCHANGED <<tokens, keys, fin>>

\* An HTTP client posts to the authenticated route.
ClientAuth ==
    /\ Start("auth")
    /\ \E h \in AuthHeaders, body \in {"valid", "notjson", "nomemecoin"},
          balance \in AgentBalances :
         ar' = [ARIdle EXCEPT !.pc = "check", !.authHeader = h, !.body = body,
                              !.agentBalance = balance]
    /\ cs' = CSIdle /\ tk' = TKIdle /\ gw' = GWIdle /\ fw' = FWIdle
    /\ UNCHANGED <<tokens, keys, fin>>

\* ------------------------------------------------------------ specification
EnvValues == {Undefined, "set"}

Init ==
    /\ env \in [NEXT_PUBLIC_BUY_BACK_PRIVATE_KEY : EnvValues,
                NEXT_PUBLIC_PRIVATE_KEY : EnvValues,
                NEXT_PUBLIC_AGENT_WALLET : EnvValues,
                NEXT_PUBLIC_PY_API_KEY : {Undefined, "k1"}]
    /\ runs = 0
    /\ active = "none"
    /\ cs = CSIdle
    /\ tk = TKIdle
    /\ gw = GWIdle
    /\ fw = FWIdle
    /\ ar = ARIdle
    /\ tokens = <<>>
    /\ keys = <<>>
    /\ minted = {}
    /\ issued = {}
    /\ fin = FinIdle
    /\ bh = BHIdle
    /\ gwc = GWCIdle

Next ==
    \/ ClientCreateSol \/ ClientTokens \/ ClientGenerateWallet \/ ClientForm \/ ClientAuth
    \/ CSFormData \/ CSUpload \/ CSConnect \/ CSConnectDelay \/ CSKeypairs
    \/ CSWaitForBalance \/ CSGetBalance \/ CSGetFile
    \/ CSCreateAttempt \/ CSCreateDelay \/ CSAfterCreate
    \/ CSBuyAttempt \/ CSBuyDelay \/ CSAfterBuy
    \/ FormSubmit \/ FormConnect \/ FormGetBalance \/ FormBlockhash \/ FormBlockhashDelay
    \/ FormSign \/ FormSend \/ FormConfirm \/ FormGetNewBalance \/ FormCreateSolReturned
    \/ FormSweepBalance \/ FormSweepSend \/ FormSweepConfirm \/ FormStore
    \/ AuthCheck \/ AuthGenerateWallet \/ AuthBlockhash \/ AuthSend \/ AuthConfirm
    \/ AuthStore \/ AuthCreateSolReturned

Spec == Init /\ [][Next]_vars

\* The post-mint finalization on its own, with every environment value set.
InitFinalize ==
    /\ Init
    /\ env = [NEXT_PUBLIC_BUY_BACK_PRIVATE_KEY |-> "set", NEXT_PUBLIC_PRIVATE_KEY |-> "set",
              NEXT_PUBLIC_AGENT_WALLET |-> "set", NEXT_PUBLIC_PY_API_KEY |-> "k1"]

NextFinalize == FinalizeStart \/ ProbePoll \/ FinalizeUpdate \/ FinalizeRetry

SpecFinalize == InitFinalize /\ [][NextFinalize]_vars

\* ------------------------------------------- create-sol alone, with fairness
\* create-sol reads NEXT_PUBLIC_BUY_BACK_PRIVATE_KEY only.
InitCreateSol ==
    /\ Init
    /\ env.NEXT_PUBLIC_PRIVATE_KEY = "set"
    /\ env.NEXT_PUBLIC_AGENT_WALLET = "set"
    /\ env.NEXT_PUBLIC_PY_API_KEY = "k1"

\* The steps of the handler and of getBlockhashWithRetry: each is the
\* settling of an awaited call or timer.
CSStep ==
    \/ CSFormData \/ CSUpload \/ CSConnect \/ CSConnectDelay \/ CSKeypairs
    \/ CSWaitForBalance \/ CSGetBalance \/ CSGetFile
    \/ CSCreateAttempt \/ CSCreateDelay \/ CSAfterCreate
    \/ CSBuyAttempt \/ CSBuyDelay \/ CSAfterBuy
    \/ BHAttempt \/ BHDelay

NextCreateSol == ClientCreateSol \/ BHCall \/ CSStep

\* Every awaited external call returns or throws, and every timer fires.
SpecCreateSol == InitCreateSol /\ [][NextCreateSol]_vars /\ WF_vars(CSStep)

\* ------------------------------- concurrent generate-wallet requests alone
NextConcurrent == \E p \in Procs : GWCReceive(p) \/ GWCClient(p) \/ GWCInsert(p)

\* The handler reads no environment variable: one environment is enough.
InitConcurrent == Init /\ \A v \in DOMAIN env : env[v] # Undefined

SpecConcurrent == InitConcurrent /\ [][NextConcurrent]_vars

\* ------------------------------------------------------------------ claims

\* C1: in one create-sol request sdk.createAndBuy is invoked at most
\* MAX_RETRIES (3) times; a request whose three attempts all failed ends in a
\* failure response, and when attempt 3 threw, the message of the error it
\* threw is the error of the response.
C1_CreateAtMostThriceLastErrorReported ==
    /\ cs.createCalls <= 3
    /\ (cs.pc = "done" /\ cs.createCalls = 3 /\ cs.createResults # "success")
         => (~cs.response.success /\ cs.response.status = 500)
    /\ (cs.pc = "done" /\ cs.createCalls = 3 /\ cs.createThrown # "")
         => cs.response.error = cs.createThrown

\* C1 witness: three attempts threw, the last one E2, and the response reports E2.
C1_Witness ==
    /\ cs.pc = "done"
    /\ cs.createCalls = 3
    /\ cs.createThrows = 3
    /\ cs.createThrown = "E2"
    /\ cs.response = [status |-> 500, success |-> FALSE, error |-> "E2", tokenUrl |-> ""]

\* C2 (as claimed): in the form and in the authenticated route no funding
\* transfer is sent in a request whose funding balance is below BASE_AMOUNT.
C2_NoSendBelowBaseAmount ==
    /\ fw.sends > 0 => fw.fundingWalletBalance >= FORM_BASE_AMOUNT
    /\ ar.sends > 0 => ar.agentBalance >= ROUTE_BASE_AMOUNT

\* C3: in the form and in the authenticated route, a request to create-sol
\* (and so any createAndBuy made for the workflow) happens only once
\* confirmTransaction of the funding transfer has returned; a workflow whose
\* confirmation did not return makes no mint attempt.
C3_FundingConfirmedBeforeMint ==
    /\ fw.createSolRequests > 0 => fw.confirmed
    /\ ar.createSolRequests > 0 => ar.confirmed
    /\ (cs.caller = "form" /\ cs.pc # "idle") => (fw.confirmed /\ fw.sends = 1)
    /\ (cs.caller = "auth" /\ cs.pc # "idle") => (ar.confirmed /\ ar.sends = 1)
    /\ (fw.pc = "done" /\ fw.sends > 0 /\ ~fw.confirmed)
         => (fw.createSolRequests = 0 /\ cs = CSIdle)
    /\ (ar.pc = "done" /\ ar.sends > 0 /\ ~ar.confirmed)
         => (ar.createSolRequests = 0 /\ cs = CSIdle)

\* C3 witness: the form's funding is confirmed and create-sol, called by the
\* form, has invoked createAndBuy.
C3_Witness ==
    /\ fw.confirmed
    /\ fw.createSolRequests = 1
    /\ cs.caller = "form"
    /\ cs.createCalls > 0

\* C4: the funding transfer is submitted at most once per workflow run, and a
\* run whose transfer was submitted but not confirmed ends in an error (the
\* form's error message, the route's status 500).
C4_FundingSentAtMostOnce ==
    /\ fw.sends <= 1
    /\ ar.sends <= 1
    /\ (fw.pc = "done" /\ fw.sends = 1 /\ ~fw.confirmed) => fw.error # ""
    /\ (ar.pc = "done" /\ ar.sends = 1 /\ ~ar.confirmed)
         => ar.response = ARResponse(500, "Token creation failed", "", 0)

\* C4 witness: the route's transfer was sent, got its signature, and its
\* confirmation failed: the request ended with status 500 after one send.
C4_Witness ==
    /\ ar.pc = "done"
    /\ ar.sends = 1
    /\ ar.fundingSignature # ""
    /\ ~ar.confirmed
    /\ ar.response.status = 500

\* C5: no step removes a mint from the chain: once createAndBuy has succeeded
\* for a mint, it stays minted through every later step, failing ones included.
C5_MintNeverUndone == [][minted \subseteq minted']_vars

\* C5 witness: the mint succeeded and the request nevertheless ended with a
\* failure response (the buy-back failed or its key is missing).
C5_Witness ==
    /\ cs.pc = "done"
    /\ cs.createResults = "success"
    /\ ~cs.response.success
    /\ cs.mint \in minted

\* C6 (as claimed): every two consecutive createAndBuy attempts are separated
\* by one delay: when attempt i+1 is about to be made, i delays have been taken.
C6_DelayBetweenAttempts ==
    cs.pc = "create" => cs.createDelays = cs.i

\* C7: if createAndBuy threw on its first k attempts (k < 3) and returned
\* success on attempt k+1, then exactly k delays were taken, createAndBuy is
\* not called again, the token is minted and the mint step does not fail.
C7_ThrowsThenSuccess ==
    (cs.createResults = "success" /\ cs.createThrows = cs.createCalls - 1)
      => /\ cs.createCalls <= 3
         /\ cs.createDelays = cs.createThrows
         /\ cs.pc \notin {"create", "createDelay"}
         /\ cs.mint \in minted
         /\ cs.response.error # "Token creation failed after all retries"

\* C7 witness: attempts 1 and 2 threw, attempt 3 succeeded, two delays were
\* taken and the request was answered with success.
C7_Witness ==
    /\ cs.pc = "done"
    /\ cs.createCalls = 3
    /\ cs.createThrows = 2
    /\ cs.createResults = "success"
    /\ cs.createDelays = 2
    /\ cs.response.success

\* C8 (as claimed): POST tokens with a body lacking targetWallet always
\* answers 400 "Missing target wallet data", whether or not the store is reachable.
C8_MissingTargetWalletAlways400 ==
    (tk.called /\ tk.jsonOk /\ Falsy(tk.body.targetWallet))
      => tk.response = TKResponse(400, FALSE, "Missing target wallet data", 0)

\* C9: a request to the authenticated route whose Authorization header is
\* missing or is not 'Bearer ' followed by the API key (as printed into the
\* template) is answered 401, and has generated no wallet, signed or sent no
\* transfer, stored no record and requested no mint.
C9_UnauthorizedNoSideEffect ==
    LET key == env.NEXT_PUBLIC_PY_API_KEY
        expected == IF key = Undefined THEN "Bearer undefined" ELSE "Bearer " \o key
    IN  (active = "auth" /\ ar.authHeader # expected)
          => /\ ar.pc \in {"check", "done"}
             /\ ar.pc = "done" => ar.response = ARResponse(401, "Unauthorized", "", 0)
             /\ ~gw.called /\ ~tk.called /\ cs = CSIdle
             /\ ~ar.walletGenerated /\ ~ar.signed /\ ar.sends = 0
             /\ ar.storeCalls = 0 /\ ar.createSolRequests = 0

\* C9 witness: with the key k1 configured, a request bearing k2 was answered 401.
C9_Witness ==
    /\ env.NEXT_PUBLIC_PY_API_KEY = "k1"
    /\ ar.authHeader = "Bearer k2"
    /\ ar.pc = "done"
    /\ ar.response.status = 401

\* C10 (as claimed): with no API key configured, every request to the
\* authenticated route fails before a wallet is generated or a transfer sent.
C10_NoKeyAuthorizesNothing ==
    (env.NEXT_PUBLIC_PY_API_KEY = Undefined /\ active = "auth")
      => (~gw.called /\ ~ar.walletGenerated /\ ar.sends = 0)

\* C11: every generate-wallet success response follows a completed insert of
\* a keys record whose walletId, publicKey and mintPublicKey are the returned
\* id, publicKey and mintPublicKey (with the secret keys of those public
\* keys); when the insert fails the response is {success:false, error} with
\* status 500, carries no id, and no record was stored.
C11_ResponseAfterInsert ==
    /\ (gw.called /\ gw.response.success)
         => /\ gw.insertError = ""
            /\ \E n \in DOMAIN keys :
                 /\ keys[n].walletId = gw.response.id
                 /\ keys[n].publicKey = gw.response.publicKey
                 /\ keys[n].mintPublicKey = gw.response.mintPublicKey
                 /\ \E k \in KeyIds : /\ keys[n].publicKey = ToBase58(k)
                                      /\ keys[n].keypair = SecretKey(k)
    /\ (gw.called /\ gw.insertError # "")
         => /\ gw.response.status = 500
            /\ ~gw.response.success
            /\ gw.response.error = gw.insertError
            /\ gw.response.id = ""
            /\ \A n \in DOMAIN keys : keys[n].walletId # WalletId(runs)

\* C11 witness: the second wallet generated is answered with the id and the
\* public keys of the second keys record.
C11_Witness ==
    /\ gw.called
    /\ gw.response.success
    /\ Len(keys) = 2
    /\ keys[2].walletId = gw.response.id
    /\ keys[2].publicKey = gw.response.publicKey
    /\ keys[1].walletId # gw.response.id

\* Secret key bytes of every keypair the program generates.
SecretKeys == {SecretKey(k) : k \in KeyIds}

\* C12 (as claimed): secret key bytes stay on the server: no handler response
\* carries them, and neither the requests the form sends (walletData to
\* create-sol, the wallets array to tokens) nor the form's own state (newWallet)
\* carry secret key bytes of the spend or mint keypair.
C12_SecretsServerSideOnly ==
    /\ {gw.response.id, gw.response.publicKey, gw.response.mintPublicKey,
        gw.response.error} \cap SecretKeys = {}
    /\ {cs.response.error, cs.response.tokenUrl} \cap SecretKeys = {}
    /\ {tk.response.error, ar.response.error, ar.response.message} \cap SecretKeys = {}
    /\ (cs.caller = "form" /\ cs.walletData = "valid")
         => {CSWalletData(cs).keypair, CSWalletData(cs).mint} \cap SecretKeys = {}
    /\ (active = "form" /\ fw.createSolRequests > 0)
         => {FormWallet(fw, runs).keypair, FormWallet(fw, runs).mint} \cap SecretKeys = {}
    /\ active = "form"
         => \A n \in DOMAIN tk.body.wallets :
              {tk.body.wallets[n].keypair, tk.body.wallets[n].mint} \cap SecretKeys = {}

\* The secret key bytes a stored document holds, in its fields or in the
\* entries of a wallets array.
DocumentSecrets(doc) ==
    LET plain == {doc[f] : f \in DOMAIN doc \ {"wallets"}}
        nested == IF "wallets" \in DOMAIN doc
                  THEN UNION {{doc.wallets[n].keypair, doc.wallets[n].mint} :
                              n \in DOMAIN doc.wallets}
                  ELSE {}
    IN  (plain \cup nested) \cap SecretKeys

\* C13: no document of the tokens collection holds spend or mint secret key
\* bytes, also when the request body carried a wallets array with keypair and
\* mint bytes; the documents that hold secret keys are those of the keys
\* collection.
C13_NoSecretsInTokens ==
    /\ \A n \in DOMAIN tokens : DocumentSecrets(tokens[n]) = {}
    /\ \A n \in DOMAIN keys : DocumentSecrets(keys[n]) # {}

\* C13 witness: a body with a targetWallet and a wallets array holding secret
\* key bytes was accepted and its document inserted.
C13_Witness ==
    /\ tk.called
    /\ tk.response.success
    /\ Len(tk.body.wallets) = 1
    /\ tk.body.wallets[1].keypair \in SecretKeys
    /\ tk.body.wallets[1].mint \in SecretKeys
    /\ Len(tokens) = tk.response.tokenId

\* C14: create-sol answers {success:true, tokenUrl} only in a request whose
\* createAndBuy and whose buy-back returned success; the tokenUrl is then
\* 'https://pump.fun/' followed by the base58 public key of the mint keypair
\* of the request, so that all success responses for one mint keypair carry
\* the same tokenUrl.
C14_SuccessOnlyAfterMintAndBuy ==
    /\ (cs.pc = "done" /\ cs.response.success)
         => /\ cs.response.status = 200
            /\ cs.createResults = "success"
            /\ cs.buyResults = "success"
            /\ cs.mint \in minted
            /\ cs.response.tokenUrl = "https://pump.fun/" \o ToBase58(cs.mint)
            /\ <<cs.mint, cs.response.tokenUrl>> \in issued
    /\ (cs.pc = "done" /\ ~cs.response.success) => cs.response.tokenUrl = ""
    /\ \A p, q \in issued : p[1] = q[1] => p[2] = q[2]
    /\ \A p \in issued : p[1] \in minted

\* C14 witness: the second request names the mint keypair of the first one,
\* which was answered with success, and is answered with success too.
C14_Witness ==
    /\ runs = 2
    /\ active = "createSol"
    /\ cs.pc = "done"
    /\ cs.response.success
    /\ cs.mint = MintKey(1)
    /\ cs.buyCalls > 0
    /\ issued = {<<MintKey(1), TokenUrl(MintKey(1))>>}

\* C15 (as claimed): when the form workflow's mint has succeeded and the
\* document store is available, the workflow's POST tokens succeeds and a
\* stored record carries the token URL: a form run that ended after a
\* successful mint, with the store reachable, has stored such a record.
C15_MintedTokenRecordStored ==
    (active = "form" /\ fw.pc = "done" /\ fw.tokenUrl # Undefined
       /\ tk.called /\ tk.clientOk)
      => /\ tk.response.success
         /\ fw.error = ""
         /\ \E n \in DOMAIN tokens :
              /\ "tokenUrl" \in DOMAIN tokens[n]
              /\ tokens[n].tokenUrl = fw.tokenUrl

\* The record the authenticated request in progress has stored, if any.
AuthRecordStored ==
    /\ ar.tokenId \in DOMAIN tokens
    /\ ar.fundingSignature # ""
    /\ tokens[ar.tokenId].fundingSignature = ar.fundingSignature
    /\ tokens[ar.tokenId].targetWallet = gw.response.publicKey

\* C16: in the authenticated workflow the token record is stored, with the
\* funding signature, only once the funding transfer is confirmed, and it is
\* stored before create-sol is requested; when the mint then fails the record
\* is still there unchanged; and no step of any handler or workflow deletes a
\* stored token record or changes one of its fields (fundingSignature included).
C16_FundedRecordKept ==
    /\ [](/\ (active = "auth" /\ ar.storeCalls > 0) => (ar.confirmed /\ ar.sends = 1)
          /\ (active = "auth" /\ ar.createSolRequests > 0)
               => (ar.storeCalls = 1 /\ AuthRecordStored)
          /\ (cs.caller = "auth" /\ cs.pc # "idle") => AuthRecordStored
          /\ (active = "auth" /\ ar.tokenId = 0) => (ar.createSolRequests = 0 /\ cs = CSIdle))
    /\ [][\A n \in DOMAIN tokens : n \in DOMAIN tokens' /\ tokens'[n] = tokens[n]]_vars

\* C16 witness: the route stored its record, requested the mint, the mint
\* failed and the request was answered 500; the record is still stored with
\* its funding signature.
C16_Witness ==
    /\ active = "auth"
    /\ ar.pc = "done"
    /\ ar.createSolRequests = 1
    /\ ar.response.status = 500
    /\ AuthRecordStored

\* C17 (as claimed): every failing path of generate-wallet, create-sol, tokens
\* and the authenticated route answers {success:false, error:<message>} with
\* a non-2xx status.
C17_FailureEnvelopeWithSuccessFalse ==
    /\ (cs.pc = "done" /\ cs.response.status # 200)
         => (~cs.response.success /\ cs.response.error # "")
    /\ (tk.called /\ tk.response.status # 200)
         => (~tk.response.success /\ tk.response.error # "")
    /\ (gw.called /\ gw.response.status # 200)
         => (~gw.response.success /\ gw.response.error # "")
    /\ (ar.pc = "done" /\ ar.response.status # 200)
         => /\ "success" \in DOMAIN ar.response
            /\ ~ar.response.success
            /\ ar.response.error # ""

\* C17 (amended): every failing path of every handler answers a JSON body
\* with an error message and a non-2xx status (400 or 500, and 401 for the
\* authenticated route); generate-wallet, create-sol and tokens send
\* {success:false, error}, the authenticated route sends {error} without a
\* success field; and no handler answers with success after one of its steps
\* failed.
C17_FailureHasErrorAndStatus ==
    /\ cs.pc = "done"
         => /\ cs.response.success <=> cs.response.status = 200
            /\ ~cs.response.success
                 => (cs.response.status = 500 /\ cs.response.error # "")
            /\ cs.response.success
                 => /\ cs.uploaded /\ cs.connection
                    /\ cs.createResults = "success" /\ cs.buyResults = "success"
    /\ tk.called
         => /\ tk.response.success <=> tk.response.status = 200
            /\ ~tk.response.success
                 => (tk.response.status \in {400, 500} /\ tk.response.error # "")
            /\ tk.response.success
                 => /\ tk.clientOk /\ tk.jsonOk
                    /\ tk.response.tokenId \in DOMAIN tokens
    /\ gw.called
         => /\ gw.response.success <=> gw.response.status = 200
            /\ ~gw.response.success
                 => (gw.response.status = 500 /\ gw.response.error # "")
            /\ gw.response.success => (gw.insertError = "" /\ Len(keys) > 0)
    /\ ar.pc = "done"
         => /\ ar.response.status \in {200, 401, 500}
            /\ "success" \notin DOMAIN ar.response
            /\ ar.response.status # 200 => ar.response.error # ""
            /\ ar.response.status = 200
                 => /\ ar.walletGenerated /\ ar.confirmed /\ ar.storeCalls = 1
                    /\ ar.response.error = ""

\* C17 witness: in an authenticated request the tokens handler failed with
\* status 500 and its envelope, and the route answered 500 with its own
\* error body.
C17_Witness ==
    /\ active = "auth"
    /\ ar.pc = "done"
    /\ ar.storeCalls = 1
    /\ tk.response = TKResponse(500, FALSE, "Failed to store token data", 0)
    /\ ar.response = ARResponse(500, "Token creation failed", "", 0)

\* C18 (as claimed): a request rejected for missing input is answered 400,
\* before any external side effect of the request: POST tokens rejecting a
\* body without targetWallet answers 400 and inserts nothing, and create-sol
\* rejecting a request without walletData answers 400 having made no upload,
\* no RPC connection and no SDK call.
C18_MissingInputIs400BeforeSideEffects ==
    /\ (tk.called /\ tk.response.error = "Missing target wallet data")
         => (tk.response.status = 400 /\ tk.response.tokenId = 0)
    /\ (cs.pc = "done" /\ cs.response.error = "No wallet data provided")
         => /\ cs.response.status = 400
            /\ ~cs.uploaded
            /\ ~cs.connection
            /\ cs.createCalls = 0 /\ cs.buyCalls = 0

\* C19: the price probe polls at most 5 times and stops at the first strictly
\* positive price, which is the price it returns; when 5 polls yielded no
\* positive price it returns null and the workflow goes on: the record is
\* then finalized with tokenUrl set and without initialPriceInSol.
C19_ProbeBoundedAndNonFatal ==
    /\ fin.attempt <= 5
    /\ fin.positives <= 1
    /\ fin.found <=> fin.positives = 1
    /\ fin.found => (fin.price > 0 /\ fin.pc \in {"update", "done"})
    /\ (fin.attempt = 5 /\ fin.positives = 0)
         => (fin.pc \in {"update", "done"} /\ ~fin.found)
    /\ (fin.pc \in {"update", "done"} /\ ~fin.found) => fin.attempt = 5
    /\ fin.pc = "done"
         => /\ fin.id \in DOMAIN tokens
            /\ tokens[fin.id].tokenUrl = TokenUrl(fin.mint)
            /\ tokens[fin.id].fundingSignature # Undefined
            /\ IF fin.found
               THEN tokens[fin.id].initialPriceInSol = fin.price
               ELSE "initialPriceInSol" \notin DOMAIN tokens[fin.id]

\* C19 witness: five polls without a positive price (three empty results or
\* non-positive prices and two request errors), and the record finalized
\* with its tokenUrl and no price.
C19_Witness ==
    /\ fin.pc = "done"
    /\ fin.attempt = 5
    /\ ~fin.found
    /\ fin.slept = 3 * EMPTY_BACKOFF + 2 * ERROR_BACKOFF
    /\ tokens[fin.id].tokenUrl = TokenUrl(fin.mint)
    /\ "initialPriceInSol" \notin DOMAIN tokens[fin.id]

\* C20: update(id, patch) is idempotent: after the same patch (tokenUrl and
\* optional price) has been applied again, the stored record is the record
\* as it was after the first application, and the other records are untouched.
C20_UpdateIdempotent ==
    fin.updates >= 1
      => /\ tokens[fin.id] = fin.afterFirst
         /\ Update(tokens, fin.id, FinalPatch(fin)) = tokens

\* C20 witness: a patch with tokenUrl and a price was applied twice.
C20_Witness ==
    /\ fin.updates = 2
    /\ fin.found
    /\ fin.price = 2
    /\ tokens[fin.id].initialPriceInSol = 2
    /\ tokens[fin.id].tokenUrl = TokenUrl(fin.mint)

\* -------------------------------------------------------------------- C21
\* C21: a blockhash fetched to sign a transaction is attempted at most 3
\* times, and the transaction that goes on to be signed or sent carries
\* lastValidBlockHeight equal to the fetched height plus 150 -- in the form's
\* funding transfer, in the authenticated route's funding transfer, and in
\* getBlockhashWithRetry.
C21_BlockhashRetriedWithMargin ==
    /\ fw.pc = "blockhash" => fw.i < FORM_MAX_RETRIES
    /\ fw.pc \in {"sign", "send"} => fw.lastValidBlockHeight = fw.fetched + 150
    /\ ar.pc = "send" => ar.lastValidBlockHeight = ar.fetched + 150
    /\ bh.calls <= 3
    /\ bh.pc = "returned" => bh.lastValidBlockHeight = bh.fetched + 150
    /\ bh.pc = "thrown" => ~bh.signed

\* -------------------------------------------------------------------- C22
\* C22: the buy-back is ordered after the mint and retried like it: sdk.buy
\* is called only in a request whose createAndBuy returned success, at most 3
\* times; each throwing attempt that is not the last has been followed by
\* one delay before the next attempt; and a request that made its buy
\* attempts without a success ends with a failure response.
C22_BuyBackRetryPolicy ==
    /\ cs.buyCalls > 0 => (cs.createResults = "success" /\ cs.mint \in minted)
    /\ cs.buyCalls <= 3
    /\ cs.pc = "buy" => (cs.j < 3 /\ cs.buyCalls = cs.j /\ cs.buyDelays = cs.buyThrows)
    /\ cs.pc = "buyDelay" => (cs.j < 2 /\ cs.buyDelays = cs.buyThrows - 1)
    /\ (cs.pc = "done" /\ cs.buyCalls > 0 /\ cs.buyResults # "success")
         => (~cs.response.success /\ cs.response.status = 500 /\ cs.response.tokenUrl = "")

\* C22 witness: sdk.buy threw three times with two delays in between, and the
\* request failed with the third attempt's error.
C22_Witness ==
    /\ cs.pc = "done"
    /\ cs.createResults = "success"
    /\ cs.buyCalls = 3
    /\ cs.buyThrows = 3
    /\ cs.buyDelays = 2
    /\ cs.response.status = 500

\* -------------------------------------------------------------------- C23
\* C23 (as claimed): in the authenticated workflow, once the wallet was
\* generated, the transfer confirmed and the record stored, the request the
\* route sends to create-sol is accepted: create-sol does not reject it for
\* its body or for missing wallet data, so the mint can be attempted.
C23_AuthRequestAcceptedByCreateSol ==
    (cs.caller = "auth" /\ ar.walletGenerated /\ ar.confirmed /\ ar.tokenId > 0 /\ cs.pc = "done")
      => cs.response.error \notin {"Failed to parse body as FormData.", "No wallet data provided"}

\* -------------------------------------------------------------------- C24
\* C24: concurrent generate-wallet requests are independent. In every
\* interleaving, the requests answered with success have pairwise distinct
\* walletIds; the keys collection holds exactly one record per successful
\* request, with pairwise distinct walletIds and keypairs; each successful
\* response names the record its own request inserted; and the local
\* variables of a request that has generated its keypairs are its own.
C24_ConcurrentRequestsIndependent ==
    LET req == gwc.req
        Ok == {p \in Procs : req[p].pc = "done" /\ req[p].response.success}
    IN  /\ \A p \in Ok, q \in Ok : p # q => req[p].response.id # req[q].response.id
        /\ Len(keys) = Cardinality(Ok)
        /\ \A m \in DOMAIN keys, n \in DOMAIN keys :
              m # n => /\ keys[m].walletId # keys[n].walletId
                       /\ {keys[m].keypair, keys[m].mint} \cap {keys[n].keypair, keys[n].mint} = {}
        /\ \A p \in Ok :
              /\ req[p].response.id = req[p].inserted.walletId
              /\ req[p].response.publicKey = req[p].inserted.publicKey
              /\ req[p].response.mintPublicKey = req[p].inserted.mintPublicKey
              /\ \E n \in DOMAIN keys : keys[n] = req[p].inserted
        /\ \A p \in Procs :
              req[p].pc = "insert" => GWCDocument(gwc.locals[p]) = req[p].inserted

\* C24 witness: two requests overlapped (the second generated its keypairs
\* while the first one's insert was pending, and its insert settled first),
\* and both were answered with success.
C24_Witness ==
    /\ gwc.req[1].pc = "done" /\ gwc.req[1].response.success
    /\ gwc.req[2].pc = "done" /\ gwc.req[2].response.success
    /\ Len(keys) = 2
    /\ keys[1] = gwc.req[2].inserted
    /\ gwc.req[1].inserted.walletId = WalletId(3)

\* -------------------------------------------------------------------- C25
\* C25: the buy-back private key is looked for only once createAndBuy has
\* succeeded. With the key not configured, a request whose mint succeeded
\* ends with status 500 and error 'Buyer private key not found', without a
\* tokenUrl and without any call of sdk.buy, while the token is minted; and
\* that error is never the answer of a request whose mint did not succeed.
C25_BuyerKeyCheckedAfterMint ==
    /\ (cs.pc = "done" /\ cs.createResults = "success"
          /\ env.NEXT_PUBLIC_BUY_BACK_PRIVATE_KEY = Undefined)
         => /\ cs.response = [status |-> 500, success |-> FALSE,
                              error |-> "Buyer private key not found", tokenUrl |-> ""]
            /\ cs.mint \in minted
            /\ cs.buyCalls = 0
            /\ \A u \in issued : u[1] # cs.mint
    /\ cs.response.error = "Buyer private key not found"
         => (cs.createResults = "success" /\ cs.mint \in minted)

\* C25 witness: with the key not configured, the mint succeeded on the second
\* attempt and the request was answered 'Buyer private key not found'.
C25_Witness ==
    /\ env.NEXT_PUBLIC_BUY_BACK_PRIVATE_KEY = Undefined
    /\ cs.pc = "done"
    /\ cs.createCalls = 2
    /\ cs.mint \in minted
    /\ cs.response.error = "Buyer private key not found"

\* -------------------------------------------------------------------- C26
\* C26: createAndBuy is called only after a balance poll saw the spend
\* account at or above MINIMUM_BALANCE_REQUIRED. waitForBalance polls at most
\* 10 times and goes on at the first sufficient poll; after 10 insufficient
\* polls the request fails with 'Insufficient balance after waiting' and no
\* SDK call has been made.
C26_MintOnlyAfterSufficientBalance ==
    /\ cs.createCalls > 0 => cs.observed >= 10000000
    /\ cs.pc \in {"getBalance", "getFile", "create", "createDelay", "afterCreate", "buy", "buyDelay", "afterBuy"}
         => cs.observed >= 10000000
    /\ cs.pc = "waitForBalance" => (cs.poll < 10 /\ cs.observed = 0)
    /\ cs.poll <= 10
    /\ cs.poll = 10
         => /\ cs.pc = "done"
            /\ cs.response = [status |-> 500, success |-> FALSE, tokenUrl |-> "",
                              error |-> "Insufficient balance after waiting. Required: 0.01 SOL"]
            /\ cs.createCalls = 0 /\ cs.buyCalls = 0
    /\ cs.response.error = "Insufficient balance after waiting. Required: 0.01 SOL"
         => cs.poll = 10

\* C26 witness: a poll saw exactly the required balance, and createAndBuy
\* was then called.
C26_Witness ==
    /\ cs.createCalls > 0
    /\ cs.observed = MINIMUM_BALANCE_REQUIRED
    /\ cs.poll = 0

\* -------------------------------------------------------------------- C27
\* The counters of the handler's loops.
C27_LoopCounters(c) == c.retryCount + c.poll + c.i + c.j

\* C27: provided each external call returns or throws, every create-sol
\* request ends with exactly one response: the loops are bounded (connection
\* at most 3 tries, balance at most 10 polls, createAndBuy at most 3 calls,
\* buy at most 3, each blockhash fetch at most 3), a pass of a loop that
\* stays in the loop advances its counter, a response once given is not
\* replaced, and a request that was received is eventually answered.
C27_CreateSolTerminates ==
    /\ [](/\ cs.retryCount <= 3 /\ cs.poll <= 10
          /\ cs.createCalls <= 3 /\ cs.buyCalls <= 3
          /\ bh.calls <= 3 /\ bh.delays < 3
          /\ (cs.pc = "done") = (cs.response.status # 0))
    /\ [][/\ (cs'.pc = cs.pc /\ cs' # cs) => C27_LoopCounters(cs') > C27_LoopCounters(cs)
          /\ (bh.pc = "delay" /\ bh'.pc = "fetch") => bh'.i > bh.i
          /\ (cs.pc = "done" /\ cs'.pc = "done") => cs'.response = cs.response]_vars
    /\ (cs.pc \notin {"idle", "done"}) ~> (cs.pc = "done")

\* C27 witness: a request whose createAndBuy and buy were each called twice
\* (one throw and one delay each) has been answered with success.
C27_Witness ==
    /\ cs.pc = "done"
    /\ cs.response.success
    /\ cs.createCalls = 2 /\ cs.createDelays = 1
    /\ cs.buyCalls = 2 /\ cs.buyDelays = 1

\* -------------------------------------------------------------------- C28
\* C28 (as claimed): the record stored through the authenticated workflow
\* keeps the values storeTokenData was given: its imageUrl is the image URL
\* passed, and tokenName, tokenSymbol, fundingSignature, fundingWallet,
\* targetWallet and solAmount are the values passed.
C28_AuthRecordKeepsMetadata ==
    (active = "auth" /\ ar.tokenId > 0)
      => LET d == tokens[ar.tokenId] IN
         /\ d.imageUrl = IMAGE_URL
         /\ d.tokenName = "Name" /\ d.tokenSymbol = "SYM"
         /\ d.fundingSignature = ar.fundingSignature
         /\ d.fundingWallet = "pkAgent"
         /\ d.targetWallet = gw.response.publicKey
         /\ d.solAmount = "0.001"

====
